---- MODULE Spec2Model ----
(***************************************************************************)
(* Blood bank ledger: the inventory, donation and blood-request handlers   *)
(* of the Express/Mongoose server, as a state machine over the three       *)
(* document collections and the user records.                              *)
(*                                                                         *)
(* Timestamps are whole seconds (the code's milliseconds divided by 1000); *)
(* an absent value (null / undefined) is the empty sequence None and a     *)
(* present one is the one-element sequence Some(x).                        *)
(***************************************************************************)
EXTENDS Integers, Sequences, FiniteSets, TLC

VARIABLES
    now,        \* Date.now(), in seconds
    users,      \* User collection: user id -> document
    inventory,  \* BloodInventory collection: a set of documents
    donations,  \* Donation collection: a set of documents
    requests,   \* BloodRequest collection: a set of documents
    last,       \* the call handled last and its response
    handlers,   \* concurrent PATCH /requests/:id/status handlers in flight
    everApproved \* history: ids of the stored requests whose status has been
                \* "approved" at some time since they were created

vars == <<now, users, inventory, donations, requests, last, handlers, everApproved>>

db == <<users, inventory, donations, requests>>

(***************************************************************************)
(* Bounds of the model.                                                    *)
(***************************************************************************)
MaxDonations == 1
MaxRequests == 1
MaxStock == 3
MaxDonationCount == 2
MaxTicks == 1
NumHandlers == 2
MaxBatches == 1

(***************************************************************************)
(* Constants of the program.                                               *)
(***************************************************************************)
EligibilityDays == 56
DefaultMinimumThreshold == 10
DefaultMaxCapacity == 100
MinUnitsAvailable == 0
MinUnitsNeeded == 1
MaxUnitsNeeded == 10
MinUnitsCollected == 1
MaxUnitsCollected == 2
DefaultUnitsCollected == 1

DaySeconds == 60 * 60 * 24

None == <<>>
Some(x) == <<x>>

BloodTypes == {"A+", "A-", "B+", "B-", "AB+", "AB-", "O+", "O-"}
NoType == "undefined"
Absent == "undefined"

Roles == {"donor", "recipient", "admin"}
DonationStatuses == {"scheduled", "completed", "cancelled", "rejected"}
RequestStatuses == {"pending", "approved", "fulfilled", "cancelled", "expired"}

(***************************************************************************)
(* The registered accounts and the clock at the start.                     *)
(***************************************************************************)
Users == {"d1", "r1", "a1"}
NoUser == "nobody"

StartTime == 100 * DaySeconds

NewUser(role, bloodType) ==
    [role |-> role, bloodType |-> bloodType, phone |-> "p0",
     lastDonation |-> None, donationCount |-> 0]

InitUsers ==
    [u \in Users |->
        CASE u = "d1" -> NewUser("donor", "A+")
          [] u = "r1" -> NewUser("recipient", "O-")
          [] OTHER    -> NewUser("admin", NoType)]

(***************************************************************************)
(* Inputs of the calls.                                                    *)
(***************************************************************************)
TargetTypes == {"A+", "O-"}
\* one second short of 56 days before the start: 55 whole days at the start,
\* exactly 56 days one tick later
DonationDates == {StartTime - EligibilityDays * DaySeconds + 1}

(***************************************************************************)
(* middleware/auth.js                                                      *)
(***************************************************************************)
authorize(caller, roles) == users[caller].role \in roles

(***************************************************************************)
(* models/User.js                                                          *)
(***************************************************************************)
checkEligibilityAlways(lastDonation, t) == TRUE

checkEligibilityStrict(lastDonation, t) ==
    IF lastDonation = None THEN TRUE
    ELSE ((t - lastDonation[1]) \div DaySeconds) > EligibilityDays

checkEligibility(lastDonation, t) ==
    IF lastDonation = None THEN TRUE
    ELSE ((t - lastDonation[1]) \div DaySeconds) >= EligibilityDays

(***************************************************************************)
(* models/BloodInventory.js                                                *)
(***************************************************************************)
NewBloodInventory(bloodType) ==
    [bloodType |-> bloodType,
     unitsAvailable |-> 0,
     lastUpdated |-> now,
     minimumThreshold |-> DefaultMinimumThreshold,
     maxCapacity |-> DefaultMaxCapacity,
     expiringUnits |-> <<>>,
     reservedUnits |-> 0]

\* the schema's validators, run by save() and insertMany()
ValidInventoryNoMin(doc) == doc.bloodType \in BloodTypes

ValidInventory(doc) ==
    /\ doc.bloodType \in BloodTypes
    /\ doc.unitsAvailable >= MinUnitsAvailable

isLowStock(doc) == doc.unitsAvailable <= doc.minimumThreshold

\* BloodInventory.findOne({ bloodType }): the set of matches, empty or one
FindInventory(bloodType) == {d \in inventory : d.bloodType = bloodType}

\* document.save() of an inventory document read as old
SaveInventory(old, doc) == (inventory \ old) \cup {doc}

(***************************************************************************)
(* The call handled last: what the handler read of the request, the        *)
(* models whose documents it saved, and the HTTP status it answered.       *)
(***************************************************************************)
NoCall ==
    [op |-> "none", caller |-> NoUser, id |-> 0, bloodType |-> NoType,
     status |-> Absent, units |-> None, date |-> None, eligible |-> FALSE,
     threshold |-> None, capacity |-> None, donor |-> NoUser,
     saved |-> {}, returned |-> {}, code |-> 0]

Call(op, caller) == [NoCall EXCEPT !.op = op, !.caller = caller]

\* a handler of the concurrent specification, before it takes a call
Idle ==
    [pc |-> "idle", caller |-> NoUser, id |-> 0, status |-> Absent,
     request |-> None, read |-> None, inv |-> None, code |-> 0]

Init ==
    /\ now = StartTime
    /\ users = InitUsers
    /\ inventory = {}
    /\ donations = {}
    /\ requests = {}
    /\ last = NoCall
    /\ handlers = [h \in 1..NumHandlers |-> Idle]
    /\ everApproved = {}

(***************************************************************************)
(* routes/inventory.js                                                     *)
(***************************************************************************)
\* the entries GET /inventory inserts into an empty collection
defaultInventoryButOne ==
    {[NewBloodInventory(b) EXCEPT
         !.unitsAvailable = 0,
         !.minimumThreshold = DefaultMinimumThreshold,
         !.maxCapacity = DefaultMaxCapacity] : b \in BloodTypes \ {"O-"}}

defaultInventory ==
    {[NewBloodInventory(b) EXCEPT
         !.unitsAvailable = 0,
         !.minimumThreshold = DefaultMinimumThreshold,
         !.maxCapacity = DefaultMaxCapacity] : b \in BloodTypes}

\* GET /inventory: the response is the collection as find() reads it, after
\* insertMany() when it was empty
GetInventory(caller) ==
    /\ inventory' = IF inventory = {} THEN defaultInventory ELSE inventory
    /\ last' = [Call("getInventory", caller) EXCEPT
                    !.saved = IF inventory = {} THEN {"BloodInventory"} ELSE {},
                    !.returned = inventory',
                    !.code = 200]
    /\ UNCHANGED <<everApproved, now, users, donations, requests, handlers>>

PatchEditsDefaults(doc, body) ==
    [doc EXCEPT
        !.unitsAvailable =
            IF body.unitsAvailable # None THEN body.unitsAvailable[1] ELSE @,
        !.minimumThreshold =
            IF body.minimumThreshold # None THEN body.minimumThreshold[1]
            ELSE DefaultMinimumThreshold,
        !.maxCapacity =
            IF body.maxCapacity # None THEN body.maxCapacity[1] ELSE @,
        !.lastUpdated = now]

\* the handler's edits of the inventory document: each field the body holds
PatchEdits(doc, body) ==
    [doc EXCEPT
        !.unitsAvailable =
            IF body.unitsAvailable # None THEN body.unitsAvailable[1] ELSE @,
        !.minimumThreshold =
            IF body.minimumThreshold # None THEN body.minimumThreshold[1] ELSE @,
        !.maxCapacity =
            IF body.maxCapacity # None THEN body.maxCapacity[1] ELSE @,
        !.lastUpdated = now]

\* PATCH /inventory/:bloodType
PatchInventory(caller, bloodType, body) ==
    LET call == [Call("patchInventory", caller) EXCEPT
                    !.bloodType = bloodType, !.units = body.unitsAvailable,
                    !.threshold = body.minimumThreshold,
                    !.capacity = body.maxCapacity]
        found == FindInventory(bloodType)
        doc == IF found = {} THEN NewBloodInventory(bloodType)
               ELSE CHOOSE d \in found : TRUE
        edited == PatchEdits(doc, body)
    IN  /\ UNCHANGED <<everApproved, now, users, donations, requests, handlers>>
        /\ IF ~authorize(caller, {"admin"})
           THEN /\ last' = [Call("patchInventory", caller) EXCEPT !.code = 403]
                /\ UNCHANGED inventory
           ELSE IF ~ValidInventory(edited)
           THEN /\ last' = [call EXCEPT !.code = 500]
                /\ UNCHANGED inventory
           ELSE /\ last' = [call EXCEPT !.saved = {"BloodInventory"}, !.code = 200]
                /\ inventory' = SaveInventory(found, edited)

AddUnitsEditsAlwaysBatch(doc, units, expiryDate) ==
    [doc EXCEPT
        !.unitsAvailable = @ + units,
        !.expiringUnits =
            Append(@, [expiryDate |-> IF expiryDate # None THEN expiryDate[1] ELSE now,
                       units |-> units]),
        !.lastUpdated = now]

\* the handler's edits of the inventory document
AddUnitsEdits(doc, units, expiryDate) ==
    [doc EXCEPT
        !.unitsAvailable = @ + units,
        !.expiringUnits =
            IF expiryDate # None
            THEN Append(@, [expiryDate |-> expiryDate[1], units |-> units])
            ELSE @,
        !.lastUpdated = now]

\* POST /inventory/add-units
AddUnits(caller, bloodType, units, expiryDate) ==
    LET call == [Call("addUnits", caller) EXCEPT
                    !.bloodType = bloodType, !.units = Some(units),
                    !.date = expiryDate]
        found == FindInventory(bloodType)
        doc == IF found = {} THEN NewBloodInventory(bloodType)
               ELSE CHOOSE d \in found : TRUE
        edited == AddUnitsEdits(doc, units, expiryDate)
    IN  /\ UNCHANGED <<everApproved, now, users, donations, requests, handlers>>
        /\ IF ~authorize(caller, {"admin"})
           THEN /\ last' = [Call("addUnits", caller) EXCEPT !.code = 403]
                /\ UNCHANGED inventory
           ELSE IF ~ValidInventory(edited)
           THEN /\ last' = [call EXCEPT !.code = 500]
                /\ UNCHANGED inventory
           ELSE /\ edited.unitsAvailable <= MaxStock
                /\ Len(edited.expiringUnits) <= MaxBatches
                /\ last' = [call EXCEPT !.saved = {"BloodInventory"}, !.code = 200]
                /\ inventory' = SaveInventory(found, edited)

(***************************************************************************)
(* models/Donation.js                                                      *)
(***************************************************************************)
\* new Donation(fields): the schema's defaults fill what the fields leave out
NewDonation(id, fields) ==
    [id |-> id,
     donor |-> fields.donor,
     donationDate |-> fields.donationDate,
     bloodType |-> fields.bloodType,
     unitsCollected |->
        IF fields.unitsCollected = None THEN DefaultUnitsCollected
        ELSE fields.unitsCollected[1],
     status |-> IF fields.status = Absent THEN "scheduled" ELSE fields.status,
     staffMember |-> NoUser]

\* the schema's validators, run by save()
ValidDonation(doc) ==
    /\ doc.donor \in Users
    /\ doc.donationDate # None
    /\ doc.bloodType \in BloodTypes
    /\ doc.unitsCollected >= MinUnitsCollected
    /\ doc.unitsCollected <= MaxUnitsCollected
    /\ doc.status \in DonationStatuses

\* Donation.findById(id): the set of matches, empty or one
FindDonation(id) == {d \in donations : d.id = id}

\* the _id of a document inserted next
NewDonationId == Cardinality(donations) + 1

(***************************************************************************)
(* routes/blood.js                                                         *)
(***************************************************************************)
\* the fields POST /blood/donate builds the document from:
\* { ...req.body, donor: req.user.id, bloodType: donor.bloodType }
DonateFieldsBodyLast(caller, body) ==
    [body EXCEPT
        !.donor = IF @ # NoUser THEN @ ELSE caller,
        !.bloodType = IF @ # Absent THEN @ ELSE users[caller].bloodType]

DonateFields(caller, body) ==
    [body EXCEPT !.donor = caller, !.bloodType = users[caller].bloodType]

\* POST /blood/donate
Donate(caller, body) ==
    LET call == [Call("donate", caller) EXCEPT
                    !.bloodType = body.bloodType, !.donor = body.donor,
                    !.status = body.status, !.units = body.unitsCollected,
                    !.date = body.donationDate,
                    !.eligible = checkEligibility(users[caller].lastDonation, now)]
        donation == NewDonation(NewDonationId, DonateFields(caller, body))
    IN  /\ UNCHANGED <<everApproved, now, users, inventory, requests, handlers>>
        /\ IF ~checkEligibility(users[caller].lastDonation, now)
           THEN /\ last' = [call EXCEPT !.code = 400]
                /\ UNCHANGED donations
           ELSE IF ~ValidDonation(donation)
           THEN /\ last' = [call EXCEPT !.code = 500]
                /\ UNCHANGED donations
           ELSE /\ Cardinality(donations) < MaxDonations
                /\ last' = [call EXCEPT !.id = donation.id,
                                        !.saved = {"Donation"}, !.code = 201]
                /\ donations' = donations \cup {donation}

\* if (unitsCollected): undefined and 0 are falsy
Truthy(n) == n # None /\ n[1] # 0

\* what the completed branch credits: donation.unitsCollected || 1
CreditedUnits(donation) ==
    IF donation.unitsCollected # 0 THEN donation.unitsCollected ELSE 1

\* the handler's edits of the donation it read
EditDonation(stored, body, caller) ==
    [stored EXCEPT
        !.status = body.status,
        !.staffMember = caller,
        !.unitsCollected =
            IF Truthy(body.unitsCollected) THEN body.unitsCollected[1] ELSE @]

\* the completed branch's edits of the donor
CreditDonor(user, donation) ==
    [user EXCEPT
        !.lastDonation = Some(donation.donationDate[1]),
        !.donationCount = @ + 1]

\* the completed branch's edits of the inventory document it read
CreditInventory(invDoc, donation) ==
    [invDoc EXCEPT
        !.unitsAvailable = @ + CreditedUnits(donation),
        !.lastUpdated = now]

CompletesOrCancels(status) == status \in {"completed", "cancelled"}

\* the test of the branch that credits the donor and the inventory
Completes(status) == status = "completed"

\* PATCH /blood/:id/status
UpdateDonationStatus(caller, id, body) ==
    LET call == [Call("donationStatus", caller) EXCEPT
                    !.id = id, !.status = body.status,
                    !.units = body.unitsCollected]
        found == FindDonation(id)
        stored == CHOOSE d \in found : TRUE
        donation == EditDonation(stored, body, caller)
        donor == CreditDonor(users[stored.donor], donation)
        invFound == FindInventory(donation.bloodType)
        invDoc == CHOOSE d \in invFound : TRUE
        invEdited == CreditInventory(invDoc, donation)
    IN  /\ UNCHANGED <<everApproved, now, requests, handlers>>
        /\ IF ~authorize(caller, {"admin"})
           THEN /\ last' = [Call("donationStatus", caller) EXCEPT !.code = 403]
                /\ UNCHANGED <<users, inventory, donations>>
           ELSE IF found = {}
           THEN /\ last' = [call EXCEPT !.code = 404]
                /\ UNCHANGED <<users, inventory, donations>>
           ELSE IF ~Completes(body.status)
           THEN /\ UNCHANGED <<users, inventory>>
                /\ IF ValidDonation(donation)
                   THEN /\ donations' = (donations \ found) \cup {donation}
                        /\ last' = [call EXCEPT !.saved = {"Donation"}, !.code = 200]
                   ELSE /\ UNCHANGED donations
                        /\ last' = [call EXCEPT !.code = 500]
           ELSE \* completed: donor.save(), then inventory.save(), then donation.save()
                /\ donor.donationCount <= MaxDonationCount
                /\ users' = [users EXCEPT ![stored.donor] = donor]
                /\ IF invFound = {}
                   THEN /\ UNCHANGED inventory
                        /\ IF ValidDonation(donation)
                           THEN /\ donations' = (donations \ found) \cup {donation}
                                /\ last' = [call EXCEPT !.saved = {"User", "Donation"},
                                                        !.code = 200]
                           ELSE /\ UNCHANGED donations
                                /\ last' = [call EXCEPT !.saved = {"User"}, !.code = 500]
                   ELSE IF ~ValidInventory(invEdited)
                   THEN /\ UNCHANGED <<inventory, donations>>
                        /\ last' = [call EXCEPT !.saved = {"User"}, !.code = 500]
                   ELSE /\ invEdited.unitsAvailable <= MaxStock
                        /\ inventory' = SaveInventory(invFound, invEdited)
                        /\ IF ValidDonation(donation)
                           THEN /\ donations' = (donations \ found) \cup {donation}
                                /\ last' = [call EXCEPT
                                     !.saved = {"User", "BloodInventory", "Donation"},
                                     !.code = 200]
                           ELSE /\ UNCHANGED donations
                                /\ last' = [call EXCEPT
                                     !.saved = {"User", "BloodInventory"},
                                     !.code = 500]

(***************************************************************************)
(* routes/users.js                                                         *)
(***************************************************************************)
\* GET /users/eligibility
GetEligibility(caller) ==
    /\ last' = [Call("getEligibility", caller) EXCEPT
                    !.date = users[caller].lastDonation,
                    !.eligible = checkEligibility(users[caller].lastDonation, now),
                    !.code = 200]
    /\ UNCHANGED <<everApproved, now, users, inventory, donations, requests, handlers>>

allowedUpdatesAndCounters ==
    {"name", "phone", "address", "medicalHistory", "profilePicture",
     "lastDonation", "donationCount"}

\* the keys of the body PATCH /users/profile copies
allowedUpdates == {"name", "phone", "address", "medicalHistory", "profilePicture"}

\* the reduce over Object.keys(req.body)
ProfileUpdates(body) ==
    [k \in DOMAIN body \cap allowedUpdates |-> body[k]]

\* User.findByIdAndUpdate(id, updates): $set of the given paths
UpdateUser(user, updates) ==
    [f \in DOMAIN user |-> IF f \in DOMAIN updates THEN updates[f] ELSE user[f]]

\* PATCH /users/profile
PatchProfile(caller, body) ==
    /\ users' = [users EXCEPT ![caller] = UpdateUser(@, ProfileUpdates(body))]
    /\ last' = [Call("patchProfile", caller) EXCEPT
                    !.units = IF "donationCount" \in DOMAIN body
                              THEN Some(body.donationCount) ELSE None,
                    !.saved = {"User"},
                    !.code = 200]
    /\ UNCHANGED <<everApproved, now, inventory, donations, requests, handlers>>

(***************************************************************************)
(* models/BloodRequest.js                                                  *)
(***************************************************************************)
\* new BloodRequest(fields): the schema's defaults fill what the fields leave out
NewBloodRequest(id, fields) ==
    [id |-> id,
     requester |-> fields.requester,
     bloodType |-> fields.bloodType,
     unitsNeeded |-> fields.unitsNeeded,
     status |-> IF fields.status = Absent THEN "pending" ELSE fields.status,
     approvedBy |-> fields.approvedBy,
     approvedDate |-> fields.approvedDate,
     fulfilledDate |-> None]

\* the schema's validators, run by save()
ValidRequest(doc) ==
    /\ doc.requester \in Users
    /\ doc.bloodType \in BloodTypes
    /\ doc.unitsNeeded >= MinUnitsNeeded
    /\ doc.unitsNeeded <= MaxUnitsNeeded
    /\ doc.status \in RequestStatuses

\* BloodRequest.findById(id): the set of matches, empty or one
FindRequest(id) == {r \in requests : r.id = id}

\* the _id of a document inserted next: one no stored request has (the least)
NewRequestId ==
    CHOOSE i \in 1..(Cardinality(requests) + 1) :
       /\ \A r \in requests : r.id # i
       /\ \A j \in 1..(i - 1) : \E r \in requests : r.id = j

(***************************************************************************)
(* routes/requests.js                                                      *)
(***************************************************************************)
\* the fields POST /requests builds the document from:
\* { ...req.body, requester: req.user.id }
RequestFields(caller, body) ==
    [requester |-> caller,
     bloodType |-> body.bloodType,
     unitsNeeded |-> body.unitsNeeded,
     status |-> body.status,
     approvedBy |-> body.approvedBy,
     approvedDate |-> body.approvedDate]

\* the history of a request's status once `doc` is stored with the given id
Approvals(doc) ==
    IF doc.status = "approved" THEN everApproved \cup {doc.id} ELSE everApproved

\* POST /requests
CreateRequest(caller, body) ==
    LET call == [Call("createRequest", caller) EXCEPT
                    !.bloodType = body.bloodType, !.status = body.status,
                    !.units = Some(body.unitsNeeded)]
        request == NewBloodRequest(NewRequestId, RequestFields(caller, body))
    IN  /\ UNCHANGED <<now, users, inventory, donations, handlers>>
        /\ IF ~ValidRequest(request)
           THEN /\ last' = [call EXCEPT !.code = 500]
                /\ UNCHANGED <<requests, everApproved>>
           ELSE /\ Cardinality(requests) < MaxRequests
                /\ last' = [call EXCEPT !.id = request.id,
                                        !.saved = {"BloodRequest"}, !.code = 201]
                /\ requests' = requests \cup {request}
                /\ everApproved' = Approvals(request)

\* the handler's edits of the request it read
EditRequest(stored, status, caller) ==
    [stored EXCEPT
        !.status = status,
        !.approvedBy = IF status = "approved" THEN caller ELSE @,
        !.approvedDate = IF status = "approved" THEN Some(now) ELSE @,
        !.fulfilledDate = IF status = "fulfilled" THEN Some(now) ELSE @]

SufficientStrict(invDoc, request) == invDoc.unitsAvailable > request.unitsNeeded

SufficientAlways(invDoc, request) == TRUE

\* the inventory test of the fulfilled branch
Sufficient(invDoc, request) == invDoc.unitsAvailable >= request.unitsNeeded

DebitInventoryByOne(invDoc, request) ==
    [invDoc EXCEPT !.unitsAvailable = @ - 1, !.lastUpdated = now]

\* the fulfilled branch's edits of the inventory document it read
DebitInventory(invDoc, request) ==
    [invDoc EXCEPT
        !.unitsAvailable = @ - request.unitsNeeded,
        !.lastUpdated = now]

\* PATCH /requests/:id/status
UpdateRequestStatus(caller, id, status) ==
    LET call == [Call("requestStatus", caller) EXCEPT !.id = id, !.status = status]
        found == FindRequest(id)
        stored == CHOOSE r \in found : TRUE
        request == EditRequest(stored, status, caller)
        invFound == FindInventory(request.bloodType)
        invDoc == CHOOSE d \in invFound : TRUE
        invEdited == DebitInventory(invDoc, request)
        debit == status = "fulfilled" /\ invFound # {} /\ Sufficient(invDoc, request)
    IN  /\ UNCHANGED <<now, users, donations, handlers>>
        /\ IF ~authorize(caller, {"admin"})
           THEN /\ last' = [Call("requestStatus", caller) EXCEPT !.code = 403]
                /\ UNCHANGED <<inventory, requests, everApproved>>
           ELSE IF found = {}
           THEN /\ last' = [call EXCEPT !.code = 404]
                /\ UNCHANGED <<inventory, requests, everApproved>>
           ELSE IF debit /\ ~ValidInventory(invEdited)
           THEN /\ last' = [call EXCEPT !.code = 500]
                /\ UNCHANGED <<inventory, requests, everApproved>>
           ELSE /\ inventory' = IF debit THEN SaveInventory(invFound, invEdited)
                                ELSE inventory
                /\ IF ValidRequest(request)
                   THEN /\ requests' = (requests \ found) \cup {request}
                        /\ everApproved' = Approvals(request)
                        /\ last' = [call EXCEPT
                             !.saved = IF debit THEN {"BloodInventory", "BloodRequest"}
                                       ELSE {"BloodRequest"},
                             !.code = 200]
                   ELSE /\ UNCHANGED <<requests, everApproved>>
                        /\ last' = [call EXCEPT
                             !.saved = IF debit THEN {"BloodInventory"} ELSE {},
                             !.code = 500]

MayDeleteAnyone(caller, request) == TRUE

\* the ownership test of DELETE /requests/:id
MayDelete(caller, request) ==
    ~(users[caller].role # "admin" /\ request.requester # caller)

DeletableAlways(request) == TRUE

\* the status test of DELETE /requests/:id
Deletable(request) == request.status \in {"pending", "cancelled"}

\* DELETE /requests/:id
DeleteRequest(caller, id) ==
    LET call == [Call("deleteRequest", caller) EXCEPT !.id = id]
        found == FindRequest(id)
        request == CHOOSE r \in found : TRUE
    IN  /\ UNCHANGED <<now, users, inventory, donations, handlers>>
        /\ IF found = {}
           THEN /\ last' = [call EXCEPT !.code = 404]
                /\ UNCHANGED <<requests, everApproved>>
           ELSE IF ~MayDelete(caller, request)
           THEN /\ last' = [call EXCEPT !.status = request.status, !.code = 403]
                /\ UNCHANGED <<requests, everApproved>>
           ELSE IF ~Deletable(request)
           THEN /\ last' = [call EXCEPT !.status = request.status, !.code = 400]
                /\ UNCHANGED <<requests, everApproved>>
           ELSE /\ last' = [call EXCEPT !.status = request.status, !.code = 200]
                /\ requests' = requests \ found
                /\ everApproved' = everApproved \ {id}

(***************************************************************************)
(* PATCH /requests/:id/status as it runs among other calls: each await of  *)
(* the handler is a step of its own, and save() writes the paths the       *)
(* handler modified.                                                       *)
(***************************************************************************)
Answer(h, code) == [handlers EXCEPT ![h].pc = "done", ![h].code = code]

\* authenticate, authorize('admin')
Receive(h, caller, id, status) ==
    /\ handlers[h].pc = "idle"
    /\ handlers' =
         IF authorize(caller, {"admin"})
         THEN [handlers EXCEPT ![h] = [Idle EXCEPT !.pc = "findRequest",
                   !.caller = caller, !.id = id, !.status = status]]
         ELSE [handlers EXCEPT ![h] = [Idle EXCEPT !.pc = "done",
                   !.caller = caller, !.code = 403]]
    /\ UNCHANGED <<everApproved, now, users, inventory, donations, requests, last>>

\* await BloodRequest.findById(req.params.id), and the edits that follow
FindRequestStep(h) ==
    LET me == handlers[h]
        found == FindRequest(me.id)
        stored == CHOOSE r \in found : TRUE
    IN  /\ me.pc = "findRequest"
        /\ handlers' =
             IF found = {} THEN Answer(h, 404)
             ELSE [handlers EXCEPT
                     ![h].request = Some(EditRequest(stored, me.status, me.caller)),
                     ![h].pc = IF me.status = "fulfilled" THEN "findInventory"
                               ELSE "saveRequest"]
        /\ UNCHANGED <<everApproved, now, users, inventory, donations, requests, last>>

\* await BloodInventory.findOne({ bloodType }), the test and the decrement
FindInventoryStep(h) ==
    LET me == handlers[h]
        request == me.request[1]
        invFound == FindInventory(request.bloodType)
        invDoc == CHOOSE d \in invFound : TRUE
    IN  /\ me.pc = "findInventory"
        /\ handlers' =
             IF invFound = {} THEN [handlers EXCEPT ![h].pc = "saveRequest"]
             ELSE IF Sufficient(invDoc, request)
             THEN [handlers EXCEPT
                     ![h].read = Some(invDoc.unitsAvailable),
                     ![h].inv = Some(DebitInventory(invDoc, request)),
                     ![h].pc = "saveInventory"]
             ELSE [handlers EXCEPT
                     ![h].read = Some(invDoc.unitsAvailable),
                     ![h].pc = "saveRequest"]
        /\ UNCHANGED <<everApproved, now, users, inventory, donations, requests, last>>

\* what save() of the handler's inventory document leaves in the collection:
\* $set of the two modified paths
WriteInventory(doc) ==
    {IF d.bloodType = doc.bloodType
     THEN [d EXCEPT !.unitsAvailable = doc.unitsAvailable,
                    !.lastUpdated = doc.lastUpdated]
     ELSE d : d \in inventory}

\* await inventory.save()
SaveInventoryStep(h) ==
    LET me == handlers[h]
        doc == me.inv[1]
    IN  /\ me.pc = "saveInventory"
        /\ IF ~ValidInventory(doc)
           THEN /\ handlers' = Answer(h, 500)
                /\ UNCHANGED inventory
           ELSE /\ handlers' = [handlers EXCEPT ![h].pc = "saveRequest"]
                /\ inventory' = WriteInventory(doc)
        /\ UNCHANGED <<everApproved, now, users, donations, requests, last>>

\* what save() of the handler's request leaves in the collection
WriteRequest(doc, status) ==
    {IF r.id = doc.id
     THEN [r EXCEPT
             !.status = doc.status,
             !.approvedBy = IF status = "approved" THEN doc.approvedBy ELSE @,
             !.approvedDate = IF status = "approved" THEN doc.approvedDate ELSE @,
             !.fulfilledDate = IF status = "fulfilled" THEN doc.fulfilledDate ELSE @]
     ELSE r : r \in requests}

\* await request.save(), and the response
SaveRequestStep(h) ==
    LET me == handlers[h]
        doc == me.request[1]
    IN  /\ me.pc = "saveRequest"
        /\ IF ~ValidRequest(doc)
           THEN /\ handlers' = Answer(h, 500)
                /\ UNCHANGED <<requests, everApproved>>
           ELSE /\ handlers' = Answer(h, 200)
                /\ requests' = WriteRequest(doc, me.status)
                /\ everApproved' = Approvals(doc)
        /\ UNCHANGED <<now, users, inventory, donations, last>>

(***************************************************************************)
(* The clock.                                                              *)
(***************************************************************************)
Tick ==
    /\ now < StartTime + MaxTicks
    /\ now' = now + 1
    /\ UNCHANGED <<everApproved, users, inventory, donations, requests, last, handlers>>

(***************************************************************************)
(* The calls the model makes.  The ledger specification Spec runs every    *)
(* handler that writes the inventory, on well-authorised calls; the        *)
(* request and donation specifications run one side each, with rejected    *)
(* and malformed calls as well.                                            *)
(***************************************************************************)
Admins == {u \in Users : InitUsers[u].role = "admin"}

\* a body of PATCH /inventory/:bloodType: each field present or left out
PatchBodyWith(n, t, c) == [unitsAvailable |-> n, minimumThreshold |-> t, maxCapacity |-> c]

PatchBody(n) == PatchBodyWith(n, None, None)

PatchBodies == {PatchBody(n) : n \in {None, Some(0 - 1), Some(2)}}

AddUnitsInputs == {0 - 1, 1, 2}

\* a body with fields of the schema beyond those the form sends
DonateBodyWith(d, s, b, u) ==
    [donationDate |-> d, unitsCollected |-> None, status |-> s,
     bloodType |-> b, donor |-> u]

DonateBody(d, s) == DonateBodyWith(d, s, Absent, NoUser)

DonateBodies ==
    {DonateBody(d, Absent) : d \in {None} \cup {Some(x) : x \in DonationDates}}
        \cup {DonateBody(Some(d), "completed") : d \in DonationDates}

StatusBody(s, n) == [status |-> s, unitsCollected |-> n]

DonationStatusBodies ==
    {StatusBody(s, None) : s \in DonationStatuses}
        \cup {StatusBody("completed", Some(n)) : n \in {0 - 1, 0, 2, 3}}

\* a body with fields of the schema beyond those the form sends
RequestBodyWith(b, n, s, by, date) ==
    [bloodType |-> b, unitsNeeded |-> n, status |-> s,
     approvedBy |-> by, approvedDate |-> date]

RequestBody(b, n) == RequestBodyWith(b, n, Absent, NoUser, None)

RequestBodies == {RequestBody(b, n) : b \in TargetTypes, n \in {2, 11}}

Next ==
    \/ \E u \in Admins : GetInventory(u)
    \/ \E u \in Admins, n \in {Some(0 - 1), Some(2)} :
          PatchInventory(u, "A+", PatchBody(n))
    \/ \E u \in Admins, n \in AddUnitsInputs : AddUnits(u, "A+", n, None)
    \/ \E d \in DonationDates : Donate("d1", DonateBody(Some(d), Absent))
    \/ \E u \in Admins, id \in 1..MaxDonations, n \in {None, Some(0 - 1), Some(2)} :
          UpdateDonationStatus(u, id, StatusBody("completed", n))
    \/ CreateRequest("r1", RequestBody("A+", 2))
    \/ \E u \in Admins, id \in 1..MaxRequests, s \in {"approved", "fulfilled"} :
          UpdateRequestStatus(u, id, s)

Spec == Init /\ [][Next]_vars

NextRequests ==
    \/ \E u \in Users : GetInventory(u)
    \/ \E u \in {"a1", "r1"}, body \in PatchBodies : PatchInventory(u, "A+", body)
    \/ \E u \in {"a1", "r1"}, n \in AddUnitsInputs : AddUnits(u, "A+", n, None)
    \/ \E body \in RequestBodies : CreateRequest("r1", body)
    \/ \E u \in {"a1", "r1"}, id \in 1..MaxRequests, s \in RequestStatuses :
          UpdateRequestStatus(u, id, s)

SpecRequests == Init /\ [][NextRequests]_vars

NextDonations ==
    \/ \E u \in Admins : GetInventory(u)
    \/ \E u \in {"d1", "a1"}, body \in DonateBodies : Donate(u, body)
    \/ \E u \in {"d1", "a1"}, id \in 1..MaxDonations, body \in DonationStatusBodies :
          UpdateDonationStatus(u, id, body)
    \/ \E u \in {"d1", "a1"} : GetEligibility(u)
    \/ Tick

SpecDonations == Init /\ [][NextDonations]_vars

\* bodies of POST /requests that carry status and approval fields
LifecycleBodies ==
    {RequestBodyWith(b, 2, s, NoUser, None) :
        b \in TargetTypes, s \in {Absent, "approved"}}
        \cup {RequestBodyWith("A+", 2, Absent, "r1", Some(StartTime))}

NextLifecycle ==
    \/ \E body \in LifecycleBodies : CreateRequest("r1", body)
    \/ \E u \in {"a1", "r1"}, id \in 1..MaxRequests, st \in RequestStatuses :
          UpdateRequestStatus(u, id, st)
    \/ \E u \in Users, id \in 1..MaxRequests : DeleteRequest(u, id)

SpecLifecycle == Init /\ [][NextLifecycle]_vars

\* bodies of PATCH /users/profile: a phone number, with and without the
\* donation fields of the schema
ProfileBodies ==
    {[phone |-> "p1"],
     [phone |-> "p1", lastDonation |-> None, donationCount |-> 5]}

\* every route, called by every role
NextProfile ==
    \/ \E body \in ProfileBodies : PatchProfile("d1", body)
    \/ \E u \in {"d1", "r1"}, d \in DonationDates :
          Donate(u, DonateBody(Some(d), Absent))
    \/ \E u \in {"a1", "d1"}, id \in 1..MaxDonations :
          UpdateDonationStatus(u, id, StatusBody("completed", None))
    \/ GetEligibility("d1")
    \/ GetInventory("r1")
    \/ AddUnits("a1", "O-", 1, None)
    \/ CreateRequest("r1", RequestBody("A+", 2))
    \/ \E id \in 1..MaxRequests : UpdateRequestStatus("a1", id, "fulfilled")
    \/ \E id \in 1..MaxRequests : DeleteRequest("r1", id)

SpecProfile == Init /\ [][NextProfile]_vars

\* bodies of PATCH /inventory/:bloodType over the subsets of its fields
StockPatchBodies ==
    {PatchBodyWith(None, None, None),
     PatchBodyWith(Some(2), None, None),
     PatchBodyWith(None, Some(1), None),
     PatchBodyWith(None, None, Some(1)),
     PatchBodyWith(Some(1), Some(2), Some(3))}

ExpiryDates == {None, Some(StartTime + 30 * DaySeconds)}

\* the inventory routes, on stocks with batches, thresholds and capacities
NextStock ==
    \/ GetInventory("a1")
    \/ \E body \in StockPatchBodies : PatchInventory("a1", "A+", body)
    \/ \E n \in AddUnitsInputs, e \in ExpiryDates : AddUnits("a1", "A+", n, e)
    \/ Tick

SpecStock == Init /\ [][NextStock]_vars

\* bodies of POST /blood/donate that name a blood type and a donor
SchedulingBodies ==
    {DonateBodyWith(Some(d), Absent, b, u) :
        d \in DonationDates,
        b \in {Absent, "O-", "AB+"},
        u \in {NoUser, "r1", "a1"}}

\* scheduling by a donor and a recipient, and the completions that follow
NextScheduling ==
    \/ \E u \in {"d1", "r1"}, body \in SchedulingBodies : Donate(u, body)
    \/ \E id \in 1..MaxDonations :
          UpdateDonationStatus("a1", id, StatusBody("completed", None))
    \/ GetEligibility("d1")
    \/ Tick

SpecScheduling == Init /\ [][NextScheduling]_vars

\* a donor who has never completed a donation has scheduled two: each
\* POST /blood/donate found lastDonation null and stored its document
InitPair ==
    /\ now = StartTime
    /\ users = InitUsers
    /\ inventory = {}
    /\ requests = {}
    /\ last = NoCall
    /\ handlers = [h \in 1..NumHandlers |-> Idle]
    /\ everApproved = {}
    /\ \E d \in DonationDates, gap \in {0, DaySeconds} :
          donations =
              {NewDonation(1, DonateFields("d1", DonateBody(Some(d), Absent))),
               NewDonation(2, DonateFields("d1", DonateBody(Some(d + gap), Absent)))}

\* the status updates of the two scheduled donations
NextPair ==
    \/ GetInventory("a1")
    \/ \E id \in {1, 2}, s \in {"completed", "cancelled"} :
          UpdateDonationStatus("a1", id, StatusBody(s, None))
    \/ \E d \in DonationDates : Donate("d1", DonateBody(Some(d), Absent))
    \/ GetEligibility("d1")
    \/ Tick

SpecPair == InitPair /\ [][NextPair]_vars

(***************************************************************************)
(* Concurrent fulfilments.  The initial states are those the sequential    *)
(* calls leave: the inventory seeded by GET /inventory with the stock of   *)
(* A+ set by PATCH /inventory/A+, and one pending A+ request per handler,  *)
(* created by POST /requests.                                              *)
(***************************************************************************)
RaceNeeds == {1, 2}

InitRace ==
    /\ now = StartTime
    /\ users = InitUsers
    /\ donations = {}
    /\ last = NoCall
    /\ handlers = [h \in 1..NumHandlers |-> Idle]
    /\ everApproved = {}
    /\ \E s \in 1..MaxStock :
          inventory = {[NewBloodInventory(b) EXCEPT
                           !.unitsAvailable = IF b = "A+" THEN s ELSE 0]
                       : b \in BloodTypes}
    /\ \E needs \in [1..NumHandlers -> RaceNeeds] :
          requests = {NewBloodRequest(i,
                          RequestFields("r1", RequestBody("A+", needs[i])))
                      : i \in 1..NumHandlers}

NextRace ==
    \/ \E h \in 1..NumHandlers, u \in Admins : Receive(h, u, h, "fulfilled")
    \/ \E h \in 1..NumHandlers : FindRequestStep(h)
    \/ \E h \in 1..NumHandlers : FindInventoryStep(h)
    \/ \E h \in 1..NumHandlers : SaveInventoryStep(h)
    \/ \E h \in 1..NumHandlers : SaveRequestStep(h)

SpecRace == InitRace /\ [][NextRace]_vars

\* the same update to "fulfilled" sent again for one request
NextRepeat ==
    \/ \E h \in 1..NumHandlers, u \in Admins : Receive(h, u, 1, "fulfilled")
    \/ \E h \in 1..NumHandlers : FindRequestStep(h)
    \/ \E h \in 1..NumHandlers : FindInventoryStep(h)
    \/ \E h \in 1..NumHandlers : SaveInventoryStep(h)
    \/ \E h \in 1..NumHandlers : SaveRequestStep(h)

SpecRepeat == InitRace /\ [][NextRepeat]_vars

(***************************************************************************)
(* Properties.                                                             *)
(***************************************************************************)
\* the stock of a blood type in a collection: None when it holds no record
UnitsOf(inv, bloodType) ==
    LET found == {d \in inv : d.bloodType = bloodType}
    IN  IF found = {} THEN None ELSE Some((CHOOSE d \in found : TRUE).unitsAvailable)

IsAdmin(u) == u \in Users /\ users[u].role = "admin"

\* this step is a handler answering a call of `op`: every other step moves the
\* clock or a concurrent handler and leaves `last` alone
CallStep(op) == last'.op = op /\ now' = now /\ handlers' = handlers

\* the call handled in this step is `op`, made by an admin
AdminCall(op) == CallStep(op) /\ IsAdmin(last'.caller)

\* the units a donation status call works with: the body's when truthy, else
\* the stored ones
CallUnits(stored) ==
    IF last'.units # None /\ last'.units[1] # 0 THEN last'.units[1]
    ELSE stored.unitsCollected

\* the handler of this step computes a negative unitsAvailable for a record
ComputesNegative ==
    \/ /\ AdminCall("patchInventory")
       /\ last'.units # None
       /\ last'.units[1] < 0
    \/ /\ AdminCall("addUnits")
       /\ LET before == UnitsOf(inventory, last'.bloodType)
          IN  (IF before = None THEN 0 ELSE before[1]) + last'.units[1] < 0
    \/ /\ AdminCall("donationStatus")
       /\ last'.status = "completed"
       /\ \E d \in donations :
             /\ d.id = last'.id
             /\ UnitsOf(inventory, d.bloodType) # None
             /\ UnitsOf(inventory, d.bloodType)[1] + CallUnits(d) < 0

\* C1: after every call every inventory record has unitsAvailable >= 0, and a
\* call whose handler computes a negative unitsAvailable (an overwrite with a
\* negative number, adding a negative amount below zero, a completion with a
\* negative unitsCollected) ends with an error and leaves the inventory as it
\* was; a fulfilment computes its decrement only when the stock covers it.
InventoryNeverNegative ==
    [][/\ \A d \in inventory' : d.unitsAvailable >= 0
       /\ ComputesNegative => last'.code = 500 /\ inventory' = inventory]_vars

\* a completion with unitsCollected -1 on an empty A+ stock was refused
InventoryNeverNegativeWitness ==
    /\ last.op = "donationStatus"
    /\ last.units = Some(0 - 1)
    /\ last.code = 500
    /\ UnitsOf(inventory, "A+") = Some(0)
    /\ \E r \in requests : r.status = "fulfilled"

AllDone == \A h \in 1..NumHandlers : handlers[h].pc = "done"

Passed(h) == handlers[h].inv # None

\* C2: concurrent fulfilments test the stock they read, not the stock at the
\* time of their write: every handler whose read covered its request answers
\* 200 and leaves its request fulfilled, and once all have answered the stock
\* is what one of them computed from its own read (read - unitsNeeded), so
\* the other debits are lost.
RaceLastWriteWins ==
    AllDone =>
        /\ \A h \in 1..NumHandlers :
              /\ handlers[h].code = 200
              /\ \E r \in requests : r.id = handlers[h].id /\ r.status = "fulfilled"
              /\ handlers[h].read # None
              /\ Passed(h) <=> handlers[h].read[1] >= handlers[h].request[1].unitsNeeded
        /\ (\E h \in 1..NumHandlers : Passed(h)) =>
              \E h \in 1..NumHandlers :
                 /\ Passed(h)
                 /\ UnitsOf(inventory, "A+") =
                       Some(handlers[h].read[1] - handlers[h].request[1].unitsNeeded)

\* two handlers read the same stock before either wrote, both passed the test,
\* both requests are fulfilled, and together they needed more than was there
RaceOverdrawWitness ==
    /\ AllDone
    /\ \E p, q \in 1..NumHandlers :
          /\ p # q
          /\ Passed(p) /\ Passed(q)
          /\ handlers[p].id # handlers[q].id
          /\ handlers[p].read = handlers[q].read
          /\ handlers[p].request[1].unitsNeeded + handlers[q].request[1].unitsNeeded
                > handlers[p].read[1]
          /\ \A r \in requests :
                r.id \in {handlers[p].id, handlers[q].id} => r.status = "fulfilled"

\* the step handles an admin's status update to "fulfilled" of stored request r
FulfilCall(r) ==
    /\ AdminCall("requestStatus")
    /\ last'.status = "fulfilled"
    /\ last'.id = r.id

\* C3: an admin's update to "fulfilled" of a request of n units, when the record
\* of its blood type holds at least n, takes exactly n from that record, leaves
\* the request fulfilled and the stock of every other blood type as it was.
FulfilDebitsExactly ==
    [][\A r \in requests :
          (/\ FulfilCall(r)
           /\ UnitsOf(inventory, r.bloodType) # None
           /\ UnitsOf(inventory, r.bloodType)[1] >= r.unitsNeeded)
          => /\ UnitsOf(inventory', r.bloodType) =
                   Some(UnitsOf(inventory, r.bloodType)[1] - r.unitsNeeded)
             /\ \E r2 \in requests' : r2.id = r.id /\ r2.status = "fulfilled"
             /\ \A b \in BloodTypes \ {r.bloodType} :
                   UnitsOf(inventory', b) = UnitsOf(inventory, b)]_vars

\* a fulfilment has debited a seeded inventory down to zero
FulfilDebitsWitness ==
    /\ last.op = "requestStatus"
    /\ last.status = "fulfilled"
    /\ last.code = 200
    /\ "BloodInventory" \in last.saved
    /\ \E r \in requests :
          /\ r.id = last.id
          /\ r.status = "fulfilled"
          /\ UnitsOf(inventory, r.bloodType) = Some(0)
    /\ UnitsOf(inventory, "O-") # None

\* C4: an admin's update to "fulfilled" of a request whose blood type has no
\* record, or a record with fewer units than needed, answers 200, leaves the
\* request fulfilled with fulfilledDate set, and leaves every inventory record
\* as it was.
FulfilWithoutStock ==
    [][\A r \in requests :
          (/\ FulfilCall(r)
           /\ \/ UnitsOf(inventory, r.bloodType) = None
              \/ UnitsOf(inventory, r.bloodType)[1] < r.unitsNeeded)
          => /\ last'.code = 200
             /\ \E r2 \in requests' :
                   r2.id = r.id /\ r2.status = "fulfilled" /\ r2.fulfilledDate # None
             /\ inventory' = inventory]_vars

\* a request was fulfilled against a record holding fewer units than it needs
FulfilWithoutStockWitness ==
    /\ last.op = "requestStatus"
    /\ last.status = "fulfilled"
    /\ last.code = 200
    /\ "BloodInventory" \notin last.saved
    /\ \E r \in requests :
          /\ r.id = last.id
          /\ r.status = "fulfilled"
          /\ r.fulfilledDate # None
          /\ UnitsOf(inventory, r.bloodType) # None
          /\ UnitsOf(inventory, r.bloodType)[1] < r.unitsNeeded

\* the step handles an admin's status update to "completed" of stored donation d
CompleteCall(d) ==
    /\ AdminCall("donationStatus")
    /\ last'.status = "completed"
    /\ last'.id = d.id

\* C5: an admin's update to "completed" with unitsCollected = u (u within the
\* schema's 1..2) adds exactly u to the record of the donation's blood type,
\* adds 1 to the donor's donationCount and sets the donor's lastDonation to the
\* donation's donationDate.
CompletionCredits ==
    [][\A d \in donations :
          (/\ CompleteCall(d)
           /\ last'.units # None
           /\ last'.units[1] >= MinUnitsCollected
           /\ last'.units[1] <= MaxUnitsCollected)
          => /\ UnitsOf(inventory', d.bloodType) =
                   Some((IF UnitsOf(inventory, d.bloodType) = None THEN 0
                         ELSE UnitsOf(inventory, d.bloodType)[1]) + last'.units[1])
             /\ users'[d.donor].donationCount = users[d.donor].donationCount + 1
             /\ users'[d.donor].lastDonation = d.donationDate]_vars

\* C6: the effects of a donation status update on the donor and the inventory
\* come together or not at all, and only with the donation stored as completed.
CompletionAllOrNothing ==
    [][CallStep("donationStatus") =>
          ((users' # users \/ inventory' # inventory)
           => /\ users' # users
              /\ inventory' # inventory
              /\ \E d \in donations' : d.id = last'.id /\ d.status = "completed")]_vars

\* the 56-day rule, without the division: absent, or at least 56 days of seconds
EligibleAt(lastDonation, t) ==
    lastDonation = None \/ t - lastDonation[1] >= EligibilityDays * DaySeconds

\* the fields of the call make a document the Donation schema accepts
WellFormedDonate(u) ==
    /\ last'.date # None
    /\ last'.status \in DonationStatuses \cup {Absent}
    /\ \/ last'.units = None
       \/ last'.units[1] \in MinUnitsCollected..MaxUnitsCollected
    /\ users[u].bloodType \in BloodTypes

\* C7: POST /blood/donate stores a donation only for a caller the 56-day rule
\* passes at that moment; for a caller whose lastDonation is fewer than 56 whole
\* days ago it answers 400 and the donations are as they were; for a caller with
\* no lastDonation, a call whose fields the Donation schema accepts (a
\* donationDate, a profile blood type) answers 201 and stores one donation.
DonateRequiresEligibility ==
    [][CallStep("donate") =>
          LET u == last'.caller
          IN  /\ donations' # donations => EligibleAt(users[u].lastDonation, now)
              /\ ~EligibleAt(users[u].lastDonation, now)
                    => last'.code = 400 /\ donations' = donations
              /\ last'.code = 400 => ~EligibleAt(users[u].lastDonation, now)
              /\ (users[u].lastDonation = None /\ WellFormedDonate(u))
                    => /\ last'.code = 201
                       /\ \E d \in donations' :
                             /\ d \notin donations
                             /\ d.donor = u
                             /\ donations' = donations \cup {d}]_vars

\* a donor with a completed donation 55 days and a bit ago was turned away
DonateRefusedWitness ==
    /\ last.op = "donate"
    /\ last.code = 400
    /\ last.caller = "d1"
    /\ users["d1"].lastDonation # None
    /\ (now - users["d1"].lastDonation[1]) \div DaySeconds = EligibilityDays - 1
    /\ \E d \in donations : d.donor = "d1" /\ d.status = "completed"

\* C8: checkEligibility answers true when lastDonation is absent, and otherwise
\* exactly when at least 56 whole days have passed: true at 56 days to the
\* second, false at 55 days and any part of the 56th.
EligibilityRule ==
    [][(CallStep("getEligibility") \/ CallStep("donate")) =>
          LET lastDonation == users[last'.caller].lastDonation
          IN  /\ last'.eligible = EligibleAt(lastDonation, now)
              /\ lastDonation = None => last'.eligible
              /\ (lastDonation # None
                    /\ now - lastDonation[1] = EligibilityDays * DaySeconds)
                    => last'.eligible
              /\ (lastDonation # None
                    /\ (now - lastDonation[1]) \div DaySeconds = EligibilityDays - 1)
                    => ~last'.eligible]_vars

\* the rule was asked exactly 56 days after the last donation, and passed
EligibilityBoundaryWitness ==
    /\ last.op = "getEligibility"
    /\ last.date # None
    /\ last.date = users[last.caller].lastDonation
    /\ now - last.date[1] = EligibilityDays * DaySeconds
    /\ last.eligible

TerminalDonationStatuses == {"completed", "cancelled", "rejected"}

\* C9: a donation whose status is completed, cancelled or rejected keeps that
\* status in every later state.
DonationTerminalStays ==
    [][\A d \in donations :
          d.status \in TerminalDonationStatuses
          => \E d2 \in donations' : d2.id = d.id /\ d2.status = d.status]_vars

\* C10: the donation POST /blood/donate stores has status scheduled.
DonateStartsScheduled ==
    [][(CallStep("donate") /\ last'.code = 201) =>
          \A d \in donations' \ donations : d.status = "scheduled"]_vars

(***************************************************************************)
(* The life of a blood request.                                            *)
(***************************************************************************)
\* C11: the request POST /requests stores has status pending, whatever the
\* body holds.
RequestStartsPending ==
    [][(CallStep("createRequest") /\ last'.code = 201) =>
          \A r \in requests' \ requests : r.status = "pending"]_vars

\* the moves of pending -> {approved, cancelled} -> {fulfilled, expired}
RequestMoves ==
    {<<"pending", "approved">>, <<"pending", "cancelled">>,
     <<"approved", "fulfilled">>, <<"approved", "expired">>}

\* C12: a status update changes a request's status only along
\* pending -> {approved, cancelled} and approved -> {fulfilled, expired}, so
\* never out of fulfilled, cancelled or expired.
RequestStatusMachine ==
    [][CallStep("requestStatus") =>
          \A r \in requests : \A r2 \in requests' :
             (r2.id = r.id /\ r2.status # r.status)
                => <<r.status, r2.status>> \in RequestMoves]_vars

\* the step handles DELETE of stored request r
DeleteCall(r) == CallStep("deleteRequest") /\ last'.id = r.id

\* C13: DELETE by the requester or an admin removes a pending or cancelled
\* request and nothing else; for an approved, fulfilled or expired request it
\* answers 400 and the requests are as they were.
DeleteOnlyPendingOrCancelled ==
    [][\A r \in requests :
          (/\ DeleteCall(r)
           /\ last'.caller = r.requester \/ IsAdmin(last'.caller))
          => IF r.status \in {"pending", "cancelled"}
             THEN last'.code = 200 /\ requests' = requests \ {r}
             ELSE last'.code = 400 /\ requests' = requests]_vars

\* the requester's DELETE of their approved request was refused
DeleteRefusedWitness ==
    /\ last.op = "deleteRequest"
    /\ last.code = 400
    /\ \E r \in requests :
          /\ r.id = last.id
          /\ r.requester = last.caller
          /\ r.status = "approved"

\* C14: DELETE by a user who is neither the requester nor an admin answers 403
\* whatever the status of the request, and the requests are as they were.
DeleteForbiddenToOthers ==
    [][\A r \in requests :
          (/\ DeleteCall(r)
           /\ last'.caller # r.requester
           /\ ~IsAdmin(last'.caller))
          => last'.code = 403 /\ requests' = requests]_vars

\* a donor's DELETE of a recipient's pending request was refused
DeleteForbiddenWitness ==
    /\ last.op = "deleteRequest"
    /\ last.code = 403
    /\ users[last.caller].role = "donor"
    /\ \E r \in requests :
          /\ r.id = last.id
          /\ r.requester # last.caller
          /\ r.status = "pending"

\* C15: a stored request has approvedBy and approvedDate set exactly when its
\* status has been approved at some time since it was created.
ApprovalRecorded ==
    \A r \in requests :
       (r.approvedBy # NoUser /\ r.approvedDate # None) <=> r.id \in everApproved

(***************************************************************************)
(* Who writes the inventory, and what GET /inventory seeds and returns.    *)
(***************************************************************************)
\* this step is a handler answering a call
AnyCallStep == last'.op # "none" /\ now' = now /\ handlers' = handlers

\* C16: a call by a user who is not an admin creates and changes no inventory
\* record.
InventoryWrittenByAdminsOnly ==
    [][(AnyCallStep /\ ~IsAdmin(last'.caller)) => inventory' = inventory]_vars

\* C19: GET /inventory on an empty collection leaves exactly one record for
\* each of the eight blood types, each with unitsAvailable 0, minimumThreshold
\* 10 and maxCapacity 100; on a collection that is not empty it leaves the
\* collection as it was.
SeedsEightWhenEmpty ==
    [][CallStep("getInventory") =>
          IF inventory = {}
          THEN /\ Cardinality(inventory') = 8
               /\ \A b \in {"A+", "A-", "B+", "B-", "AB+", "AB-", "O+", "O-"} :
                     \E d \in inventory' :
                        /\ d.bloodType = b
                        /\ d.unitsAvailable = 0
                        /\ d.minimumThreshold = 10
                        /\ d.maxCapacity = 100
          ELSE inventory' = inventory]_vars

\* GET /inventory has just seeded the collection
SeededWitness ==
    /\ last.op = "getInventory"
    /\ "BloodInventory" \in last.saved
    /\ Cardinality(inventory) = 8
    /\ last.returned = inventory

\* C20: a GET /inventory that answers 200 returns one record for each of the
\* eight blood types.
GetReturnsEight ==
    [][(CallStep("getInventory") /\ last'.code = 200) =>
          \A b \in BloodTypes :
             Cardinality({d \in last'.returned : d.bloodType = b}) = 1]_vars

(***************************************************************************)
(* Who donates, and who writes a user's donation fields.                   *)
(***************************************************************************)
\* C17: POST /blood/donate stores a donation only for a caller whose role is
\* donor.
OnlyDonorsDonate ==
    [][(CallStep("donate") /\ donations' # donations) =>
          users[last'.caller].role = "donor"]_vars

\* the step is an admin's status update to "completed" of a donation of user u
CompletionOf(u) ==
    /\ AdminCall("donationStatus")
    /\ last'.status = "completed"
    /\ \E d \in donations : d.id = last'.id /\ d.donor = u

\* C18: a user's lastDonation and donationCount change only in a status update
\* to "completed" of a donation of that user; PATCH /users/profile leaves both
\* as they were, whatever its body holds.
DonationFieldsFrame ==
    [][/\ \A u \in Users :
             (\/ users'[u].lastDonation # users[u].lastDonation
              \/ users'[u].donationCount # users[u].donationCount)
             => CompletionOf(u)
       /\ CallStep("patchProfile") =>
             \A u \in Users :
                /\ users'[u].lastDonation = users[u].lastDonation
                /\ users'[u].donationCount = users[u].donationCount]_vars

\* a donor with one completed donation sent donationCount 5 with a new phone
\* number: the phone number was stored, the count was not
ProfileFrameWitness ==
    /\ last.op = "patchProfile"
    /\ last.units = Some(5)
    /\ last.code = 200
    /\ users[last.caller].phone = "p1"
    /\ users[last.caller].donationCount = 1
    /\ users[last.caller].lastDonation # None

(***************************************************************************)
(* The inventory routes: add-units, field overwrite, capacity.             *)
(***************************************************************************)
\* the record of a blood type in a collection, a fresh one when it holds none
RecordOf(inv, bloodType) ==
    LET found == {d \in inv : d.bloodType = bloodType}
    IN  IF found = {} THEN NewBloodInventory(bloodType) ELSE CHOOSE d \in found : TRUE

\* the records of the other blood types
OthersOf(inv, bloodType) == {d \in inv : d.bloodType # bloodType}

\* C21: an admin's add-units of u for blood type b leaves b's record with its
\* former unitsAvailable (0 when there was no record) plus u, with one more
\* {expiryDate, units} batch exactly when an expiryDate was given, and every
\* other record as it was; the record is low in stock exactly when its new
\* unitsAvailable <= minimumThreshold.  (A u that would take the stock below
\* zero is refused with 500 and nothing changes.)  5 units at threshold 10
\* are low stock, and with 20 added are 25 and not low stock.
AddUnitsCredits ==
    [][/\ AdminCall("addUnits") =>
             LET b == last'.bloodType
                 u == last'.units[1]
                 old == RecordOf(inventory, b)
                 new == RecordOf(inventory', b)
             IN  IF old.unitsAvailable + u < 0
                 THEN last'.code = 500 /\ inventory' = inventory
                 ELSE /\ last'.code = 200
                      /\ UnitsOf(inventory', b) = Some(old.unitsAvailable + u)
                      /\ new.expiringUnits =
                            IF last'.date # None
                            THEN old.expiringUnits \o
                                    <<[expiryDate |-> last'.date[1], units |-> u]>>
                            ELSE old.expiringUnits
                      /\ OthersOf(inventory', b) = OthersOf(inventory, b)
                      /\ isLowStock(new) <=> new.unitsAvailable <= new.minimumThreshold
       /\ LET five == [NewBloodInventory("O+") EXCEPT !.unitsAvailable = 5]
              more == AddUnitsEdits(five, 20, None)
          IN  /\ five.minimumThreshold = 10
              /\ isLowStock(five)
              /\ more.unitsAvailable = 25
              /\ ~isLowStock(more)]_vars

\* units with an expiry date were added to a stock whose threshold is 1: the
\* record holds the batch and is no longer low in stock
AddUnitsWitness ==
    /\ last.op = "addUnits"
    /\ last.code = 200
    /\ last.date # None
    /\ LET d == RecordOf(inventory, last.bloodType)
       IN  /\ Len(d.expiringUnits) = 1
           /\ d.unitsAvailable = 2
           /\ d.minimumThreshold = 1
           /\ ~isLowStock(d)

\* the value a field has after an overwrite with an optional body value
Overwritten(given, old) == IF given # None THEN given[1] ELSE old

\* C24: an admin's PATCH /inventory/:bloodType leaves the record with each of
\* unitsAvailable, minimumThreshold and maxCapacity equal to the body's value
\* when the body holds one and as it was otherwise, with lastUpdated the time
\* of the call, with reservedUnits and the expiry batches as they were, and
\* every other record as it was.  (A negative unitsAvailable is refused with
\* 500 and nothing changes.)
PatchOverwritesGiven ==
    [][AdminCall("patchInventory") =>
          LET b == last'.bloodType
              old == RecordOf(inventory, b)
              new == RecordOf(inventory', b)
          IN  IF last'.units # None /\ last'.units[1] < 0
              THEN last'.code = 500 /\ inventory' = inventory
              ELSE /\ last'.code = 200
                   /\ UnitsOf(inventory', b) # None
                   /\ new.unitsAvailable = Overwritten(last'.units, old.unitsAvailable)
                   /\ new.minimumThreshold =
                         Overwritten(last'.threshold, old.minimumThreshold)
                   /\ new.maxCapacity = Overwritten(last'.capacity, old.maxCapacity)
                   /\ new.lastUpdated = now
                   /\ new.reservedUnits = old.reservedUnits
                   /\ new.expiringUnits = old.expiringUnits
                   /\ OthersOf(inventory', b) = OthersOf(inventory, b)]_vars

\* a body holding only minimumThreshold was applied, a tick after the start,
\* to a record with 2 units and one expiry batch: both are still there
PatchWitness ==
    /\ last.op = "patchInventory"
    /\ last.code = 200
    /\ last.units = None /\ last.capacity = None
    /\ last.threshold = Some(1)
    /\ now > StartTime
    /\ LET d == RecordOf(inventory, last.bloodType)
       IN  /\ d.unitsAvailable = 2
           /\ d.minimumThreshold = 1
           /\ d.maxCapacity = DefaultMaxCapacity
           /\ Len(d.expiringUnits) = 1
           /\ d.lastUpdated = now
    /\ Cardinality(inventory) = 8

\* C30: every inventory record has unitsAvailable <= maxCapacity.
StockWithinCapacity ==
    \A d \in inventory : d.unitsAvailable <= d.maxCapacity

(***************************************************************************)
(* Donation status updates: what they touch and how much they credit.      *)
(***************************************************************************)
\* C22: an admin's status update to cancelled or rejected leaves every
\* inventory record, every user (so the donor's lastDonation and
\* donationCount) and every other donation as they were; of the donation
\* itself it keeps the donor, the date and the blood type.
CancelRejectFrame ==
    [][(AdminCall("donationStatus") /\ last'.status \in {"cancelled", "rejected"}) =>
          /\ inventory' = inventory
          /\ users' = users
          /\ requests' = requests
          /\ \A d \in donations :
                IF d.id # last'.id THEN d \in donations'
                ELSE \E d2 \in donations' :
                        /\ d2.id = d.id
                        /\ d2.donor = d.donor
                        /\ d2.donationDate = d.donationDate
                        /\ d2.bloodType = d.bloodType
                        /\ last'.code = 200 =>
                              d2.status = last'.status /\ d2.staffMember = last'.caller]_vars

\* a scheduled donation was cancelled with the inventory seeded: the donor has
\* no donation counted and the stock of their blood type is still zero
CancelWitness ==
    /\ last.op = "donationStatus"
    /\ last.status = "cancelled"
    /\ last.code = 200
    /\ \E d \in donations :
          /\ d.id = last.id
          /\ d.status = "cancelled"
          /\ d.staffMember = last.caller
          /\ users[d.donor].donationCount = 0
          /\ users[d.donor].lastDonation = None
          /\ UnitsOf(inventory, d.bloodType) = Some(0)

\* the units a step adds to the stock of a blood type
CreditOf(bloodType) ==
    (IF UnitsOf(inventory', bloodType) = None THEN 0
     ELSE UnitsOf(inventory', bloodType)[1])
    - (IF UnitsOf(inventory, bloodType) = None THEN 0
       ELSE UnitsOf(inventory, bloodType)[1])

\* C28: a donation status update adds to each stock nothing, 1 or 2 units,
\* whatever unitsCollected the body holds.
CreditWithinRange ==
    [][CallStep("donationStatus") =>
          \A b \in BloodTypes :
             \/ CreditOf(b) = 0
             \/ /\ CreditOf(b) >= MinUnitsCollected
                /\ CreditOf(b) <= MaxUnitsCollected]_vars

\* the donations of user u stored as completed
CompletedOf(u) == {d \in donations : d.donor = u /\ d.status = "completed"}

\* C26: each user's donationCount is the number of that user's donations whose
\* status is completed.
CountMatchesCompleted ==
    \A u \in Users : users[u].donationCount = Cardinality(CompletedOf(u))

(***************************************************************************)
(* Scheduling: whose donation it is.                                       *)
(***************************************************************************)
\* C23: the donation POST /blood/donate stores has the caller as donor and the
\* caller's profile blood type, whatever donor and bloodType the body holds.
DonationIsCallers ==
    [][CallStep("donate") =>
          /\ \A d \in donations' \ donations :
                /\ d.donor = last'.caller
                /\ d.bloodType = users[last'.caller].bloodType
          /\ last'.code = 201 => donations' # donations]_vars

\* a donor with blood type A+ sent bloodType O- and another user as donor: the
\* stored donation is the caller's, with A+
DonationIsCallersWitness ==
    /\ last.op = "donate"
    /\ last.code = 201
    /\ last.bloodType = "O-"
    /\ last.donor = "r1"
    /\ last.caller = "d1"
    /\ \E d \in donations :
          /\ d.id = last.id
          /\ d.donor = "d1"
          /\ d.bloodType = "A+"

(***************************************************************************)
(* Fulfilling a request twice.                                             *)
(***************************************************************************)
\* C25: the inventory is debited for one request at most once: while only
\* updates of request 1 run, the stock of its blood type never lies more
\* than the request's unitsNeeded below a value one of these updates read.
DebitedAtMostOnce ==
    \A h \in 1..NumHandlers, r \in requests :
        (r.id = 1 /\ handlers[h].read # None)
        => handlers[h].read[1] - UnitsOf(inventory, r.bloodType)[1] <= r.unitsNeeded

(***************************************************************************)
(* Completing two donations of one donor.                                  *)
(***************************************************************************)
\* C27: any two completed donations of the same donor have donationDates at
\* least 56 days apart.
CompletedApart ==
    \A x, y \in donations :
        (/\ x.id # y.id
         /\ x.donor = y.donor
         /\ x.status = "completed"
         /\ y.status = "completed")
        => \/ x.donationDate[1] - y.donationDate[1] >= EligibilityDays * DaySeconds
           \/ y.donationDate[1] - x.donationDate[1] >= EligibilityDays * DaySeconds

(***************************************************************************)
(* Concurrent writers of one inventory record.                             *)
(***************************************************************************)
\* the stock values the handlers read
ReadsOf == {handlers[h].read[1] : h \in {k \in 1..NumHandlers : handlers[k].read # None}}

\* the stock before the first call: fulfilments only lower it, so it is the
\* largest value a handler read
StockAtStart == CHOOSE m \in ReadsOf : \A x \in ReadsOf : x <= m

\* the units debited by the handlers 1..n that saved their debit and answered 200
RECURSIVE DebitedBy(_)
DebitedBy(n) ==
    IF n = 0 THEN 0
    ELSE DebitedBy(n - 1) +
         (IF Passed(n) /\ handlers[n].code = 200
          THEN handlers[n].request[1].unitsNeeded ELSE 0)

\* C29: no update is lost under concurrency: once all calls have returned the
\* stock is its initial value minus every amount debited by the calls that
\* reported success (no call of these runs credits).
NoUpdateLost ==
    (AllDone /\ ReadsOf # {})
    => UnitsOf(inventory, "A+") = Some(StockAtStart - DebitedBy(NumHandlers))

====
